---- MODULE Spec2Model ----
(***************************************************************************)
(* Document-ingestion pipeline of the Railway Document Worker:             *)
(* the two upload endpoints of src/main.py, DocumentProcessor and the      *)
(* services it drives (image/OCR pipeline, PDF processor, tabular          *)
(* processor, LLM adapter, Claude formatter) and temp-file storage.        *)
(*                                                                         *)
(* Conventions of the model                                                *)
(*  - a text is a record [src, n, pad]: who produced it, the number of     *)
(*    characters left by str.strip() and the number of surrounding         *)
(*    whitespace characters; len(text) = n + pad;                          *)
(*  - a confidence_score is a set: {} when the key is absent, {c} when it  *)
(*    is present, c in hundredths (95 stands for 0.95);                    *)
(*  - an OCR confidence is an integer on the 0..100 scale of pytesseract;  *)
(*  - a Python dict key that is missing is the string "<absent>".          *)
(***************************************************************************)
EXTENDS Integers, Sequences, FiniteSets, TLC

VARIABLES
    pc,            \* position of the request in its handler
    cfg,           \* feature flags read from the environment at import
    served,        \* number of requests completed so far
    req,           \* the request being processed
    files,         \* temp files that exist on disk
    cleanupCalls,  \* invocations of cleanup_temp_file on the request's path
    bgTasks,       \* background tasks queued on the response
    ocr,           \* image_analysis["ocr_data"] of the image pipeline
    mv,            \* image_analysis["mistral_vision"] / ["mistral_vision_error"]
    text,          \* the local variable text of the pipeline
    llm,           \* the analyze_document_* call in progress and its attempts
    analysis,      \* the dict returned by analyze_document_*
    result,        \* the dict built by the format-specific path
    ret,           \* what the DocumentProcessor method handed to its caller
    response,      \* the HTTP response of the endpoint
    calls,         \* per-request invocation counters
    exc,           \* the exception that reached the processor's except clause
    unit,          \* the last application of a stand-alone function of the services
    handle,        \* the file object MockUploadFile opened on the temp file
    tasks          \* requests served at the same time: position and temp path

vars == <<pc, cfg, served, req, files, cleanupCalls, bgTasks, ocr, mv, text,
          llm, analysis, result, ret, response, calls, exc, unit, handle, tasks>>

----------------------------------------------------------------------------
\* Bounds of the model.
MaxRequests == 2
MaxPad == 1
MaxPages == 2
MaxLines == 2
MaxInFlight == 2

\* Program constants.
MAX_FILE_SIZE_MB == 10
MaxAttempts == 3
EscalationThreshold == 200
MistralTextThreshold == 100
OcrConfidenceThreshold == 70
VisionOverrideThreshold == 70
MinTextLength == 50

ALLOWED_IMAGE_EXTENSIONS == {"jpg", "jpeg", "png", "webp"}
ALLOWED_PDF_EXTENSIONS == {"pdf"}
ALLOWED_EXCEL_EXTENSIONS == {"xls", "xlsx", "xlsm", "xlsb"}
ALLOWED_CSV_EXTENSIONS == {"csv"}

----------------------------------------------------------------------------
\* Texts.
AbsentText == [src |-> "<absent>", n |-> 0, pad |-> 0]
EmptyText == [src |-> "empty", n |-> 0, pad |-> 0]

MkText(src, n, pad) ==
    IF n = 0 /\ pad = 0 THEN EmptyText ELSE [src |-> src, n |-> n, pad |-> pad]

StripLen(t) == t.n
Truthy(t) == t.n + t.pad > 0

\* Python dicts exchanged between the stages.
Dict(dt, cs, ed, rt, err, notes) ==
    [document_type |-> dt, confidence_score |-> cs, extracted_data |-> ed,
     raw_text |-> rt, error |-> err, processing_notes |-> notes]

NoDict == Dict("<absent>", {}, "<absent>", AbsentText, "", <<>>)

NoRet == [view |-> "none", raised |-> FALSE, d |-> NoDict]

NoResponse ==
    [status |-> 0, document_id |-> "<absent>", document_type |-> "<absent>",
     confidence_score |-> {}, processing_notes |-> <<>>, detail |-> {}]

NoOcr == [text |-> AbsentText, confidence |-> 0, error |-> FALSE]
NoMv == [present |-> FALSE, document_type |-> "<absent>", confidence |-> 0,
         error |-> FALSE]
NoLlm == [kind |-> "none", log |-> <<>>, inflight |-> 0, waits |-> 0]
NoUnit == [fn |-> "none", input |-> <<>>, output |-> <<>>]
NoTask == [pc |-> "idle", flow |-> "", path |-> <<>>]
NoCalls == [processor |-> 0, fallback |-> 0, text_analysis |-> 0,
            vision_remote |-> 0, llm_remote |-> 0]

----------------------------------------------------------------------------
\* Requests.
Filenames ==
    {[stem |-> "doc", ext |-> "jpg"],
     [stem |-> "doc", ext |-> "PDF"], [stem |-> "fattura_test", ext |-> "PDF"],
     [stem |-> "doc", ext |-> "xlsx"], [stem |-> "fattura_test", ext |-> "xlsx"],
     [stem |-> "doc", ext |-> "csv"], [stem |-> "fattura_test", ext |-> "csv"],
     [stem |-> "doc", ext |-> "txt"], [stem |-> "", ext |-> ""]}
Sizes == {0, MAX_FILE_SIZE_MB * 1024 * 1024, MAX_FILE_SIZE_MB * 1024 * 1024 + 1}

NoHint == [kind |-> "none", val |-> ""]
\* The form field of the endpoints is a plain string; a caller inside the
\* process may pass a DocumentType member or any string.
ApiHints == {NoHint, [kind |-> "str", val |-> "fattura"]}
DirectHints == {NoHint, [kind |-> "enum", val |-> "fattura"], [kind |-> "str", val |-> "ddt"]}

NoReq == [flow |-> "none", entry |-> "none", stem |-> "doc", ext |-> "txt",
          size |-> 0, hint |-> NoHint]

\* str.lower() on the extensions of the model.
Lower(e) == CASE e = "PDF" -> "pdf" [] e = "JPG" -> "jpg" [] OTHER -> e

get_file_extension(r) == Lower(r.ext)

is_allowed_image(r) == get_file_extension(r) \in ALLOWED_IMAGE_EXTENSIONS
is_allowed_pdf(r) == get_file_extension(r) \in ALLOWED_PDF_EXTENSIONS
is_allowed_excel(r) == get_file_extension(r) \in ALLOWED_EXCEL_EXTENSIONS
is_allowed_csv(r) == get_file_extension(r) \in ALLOWED_CSV_EXTENSIONS

is_allowed_file(r) ==
    is_allowed_image(r) \/ is_allowed_pdf(r) \/ is_allowed_excel(r) \/ is_allowed_csv(r)

\* A size check that lets every upload through.
is_file_size_allowed_any(size) == TRUE

is_file_size_allowed(size) == size <= MAX_FILE_SIZE_MB * 1024 * 1024

\* validate_file: "ok" or the reason of the HTTP 400.
validate_file(r) ==
    IF r.stem = "" /\ r.ext = "" THEN "missing"
    ELSE IF ~is_allowed_file(r) THEN "unsupported"
    ELSE IF ~is_file_size_allowed(r.size) THEN "too_big"
    ELSE IF is_allowed_image(r) \/ is_allowed_pdf(r) THEN "ok"
    ELSE "unclassified"

\* The extensions the detail of the HTTP 400 of validate_file names.
RejectionDetail(reason) ==
    IF reason = "unsupported"
    THEN ALLOWED_IMAGE_EXTENSIONS \cup ALLOWED_PDF_EXTENSIONS
    ELSE {}

----------------------------------------------------------------------------
\* Temp storage.
\* A cleanup that leaves the file on disk.
cleanup_temp_file_noop(fs, path) == fs

\* cleanup_temp_file removes the file when it exists.
cleanup_temp_file(fs, path) == fs \ {path}

----------------------------------------------------------------------------
Init ==
    /\ pc = "idle"
    /\ cfg \in [vision : BOOLEAN, imgproc : BOOLEAN]
    /\ served = 0
    /\ req = NoReq
    /\ files = {}
    /\ cleanupCalls = 0
    /\ bgTasks = 0
    /\ ocr = NoOcr
    /\ mv = NoMv
    /\ text = AbsentText
    /\ llm = NoLlm
    /\ analysis = NoDict
    /\ result = NoDict
    /\ ret = NoRet
    /\ response = NoResponse
    /\ calls = NoCalls
    /\ exc = ""
    /\ unit = NoUnit
    /\ handle = "none"
    /\ tasks = [i \in 1..MaxInFlight |-> NoTask]

\* A client posts a file to one of the two endpoints of main.py.
Submit ==
    /\ pc = "idle"
    /\ served < MaxRequests
    /\ \E flow \in {"process-document", "process-for-claude"},
          f \in Filenames, size \in Sizes, hint \in ApiHints :
          req' = [flow |-> flow, entry |-> "api", stem |-> f.stem, ext |-> f.ext,
                  size |-> size, hint |-> hint]
    /\ pc' = "validate"
    /\ UNCHANGED <<tasks, handle, exc, unit, cfg, served, files, cleanupCalls, bgTasks, ocr, mv, text,
                   llm, analysis, result, ret, response, calls>>

\* validate_file, awaited first by both endpoints; an HTTPException is
\* re-raised by the endpoint as it is.
ValidateFile ==
    /\ pc = "validate"
    /\ IF validate_file(req) = "ok"
       THEN /\ pc' = "save"
            /\ UNCHANGED response
       ELSE /\ pc' = "done"
            /\ response' = [NoResponse EXCEPT
                                !.status = 400,
                                !.detail = RejectionDetail(validate_file(req))]
    /\ UNCHANGED <<tasks, handle, exc, unit, cfg, served, req, files, cleanupCalls, bgTasks, ocr, mv,
                   text, llm, analysis, result, ret, calls>>

\* save_upload_file writes the upload into the temp folder.
SaveUploadFile ==
    /\ pc = "save"
    /\ files' = files \cup {"upload"}
    /\ pc' = "processor"
    /\ UNCHANGED <<tasks, handle, exc, unit, cfg, served, req, cleanupCalls, bgTasks, ocr, mv, text,
                   llm, analysis, result, ret, response, calls>>

\* A caller inside the process hands a saved temp file to one of the two
\* public methods of DocumentProcessor.
DirectCall ==
    /\ pc = "idle"
    /\ served < MaxRequests
    /\ \E flow \in {"process-document", "process-for-claude"},
          f \in Filenames, size \in Sizes \ {MAX_FILE_SIZE_MB * 1024 * 1024 + 1},
          hint \in DirectHints :
          req' = [flow |-> flow, entry |-> "direct", stem |-> f.stem, ext |-> f.ext,
                  size |-> size, hint |-> hint]
    /\ files' = files \cup {"upload"}
    /\ pc' = "processor"
    /\ UNCHANGED <<tasks, handle, exc, unit, cfg, served, cleanupCalls, bgTasks, ocr, mv, text, llm,
                   analysis, result, ret, response, calls>>

\* The branch of the if/elif chain of process_document / process_for_claude.
\* A dispatch that hands an image to the analysis without extracting first.
DispatchTarget_SkipExtraction(r) ==
    IF is_allowed_image(r) THEN "escalate"
    ELSE IF is_allowed_pdf(r) THEN "pdf"
    ELSE IF is_allowed_excel(r) THEN "tabular"
    ELSE IF is_allowed_csv(r) THEN "tabular"
    ELSE "except"

DispatchTarget(r) ==
    IF is_allowed_image(r) THEN "image"
    ELSE IF is_allowed_pdf(r) THEN "pdf"
    ELSE IF is_allowed_excel(r) THEN "tabular"
    ELSE IF is_allowed_csv(r) THEN "tabular"
    ELSE "except"

\* Entry of DocumentProcessor.process_document / process_for_claude.
Dispatch ==
    /\ pc = "processor"
    /\ calls' = [calls EXCEPT !.processor = @ + 1]
    /\ pc' = DispatchTarget(req)
    /\ exc' = IF DispatchTarget(req) = "except" THEN "ValueError" ELSE exc
    /\ UNCHANGED <<tasks, handle, unit, cfg, served, req, files, cleanupCalls, bgTasks, ocr, mv,
                   text, llm, analysis, result, ret, response>>

----------------------------------------------------------------------------
\* Image/OCR pipeline (ImageProcessor, OCRService, MistralVisionService).
OcrLens == {40, 199, 200}
OcrConfidences == {69, 70}

OcrFailed == [text |-> EmptyText, confidence |-> 0, error |-> TRUE]

\* Where process_image goes after analyze_image: the Mistral Vision block
\* runs only with both feature flags on.
AfterOcr(c) == IF c.vision /\ c.imgproc THEN "mistral" ELSE "escalate"

\* ImageProcessor.analyze_image up to the preprocessing: Image.open of the
\* upload (an exception there returns the error analysis) and
\* preprocess_image, which saves preprocessed_<uuid>.png or, on any
\* exception, returns the original path.
PreprocessImage ==
    /\ pc = "image"
    /\ \E openable \in (IF req.size = 0 THEN {FALSE} ELSE BOOLEAN),
          preprocessed \in BOOLEAN :
          IF ~openable
          THEN /\ ocr' = OcrFailed
               /\ text' = OcrFailed.text
               /\ pc' = AfterOcr(cfg)
               /\ UNCHANGED files
          ELSE /\ files' = IF preprocessed THEN files \cup {"preprocessed"} ELSE files
               /\ pc' = "ocr"
               /\ UNCHANGED <<ocr, text>>
    /\ UNCHANGED <<tasks, handle, exc, unit, cfg, served, req, cleanupCalls, bgTasks, mv, llm, analysis,
                   result, ret, response, calls>>

\* OCRService.get_ocr_data (never raises: an exception gives the empty
\* result), then the preprocessed image is removed, then process_image
\* reads text = analysis["ocr_data"]["text"].
RunOcr ==
    /\ pc = "ocr"
    /\ \E o \in {OcrFailed} \cup
                {[text |-> MkText("ocr", n, p), confidence |-> c, error |-> FALSE] :
                    n \in OcrLens, p \in 0..MaxPad, c \in OcrConfidences} :
          /\ ocr' = o
          /\ text' = o.text
    /\ files' = cleanup_temp_file(files, "preprocessed")
    /\ pc' = AfterOcr(cfg)
    /\ UNCHANGED <<tasks, handle, exc, unit, cfg, served, req, cleanupCalls, bgTasks, mv, llm, analysis,
                   result, ret, response, calls>>

\* Replies of Mistral Vision to detect_document_type and to
\* extract_document_data; a failed call gives "sconosciuto"/0 and raw_text "".
MistralDetections ==
    {[document_type |-> "sconosciuto", confidence |-> 0],
     [document_type |-> "fattura", confidence |-> 95],
     [document_type |-> "scontrino", confidence |-> 70]}
MistralRawTexts == {EmptyText, MkText("mistral", 50, 0), MkText("mistral", 300, 0)}

\* process_image: the OCR text is replaced by the Mistral raw_text when the
\* OCR text has fewer than 100 trimmed characters ("raw_text" is a key of
\* every dict extract_document_data returns).
MistralText(t, raw) == IF StripLen(t) < MistralTextThreshold THEN raw ELSE t

\* The Mistral Vision block of ImageProcessor.process_image.
MistralAdvanced ==
    /\ pc = "mistral"
    /\ \E d \in MistralDetections, raw \in MistralRawTexts :
          /\ mv' = [present |-> TRUE, document_type |-> d.document_type,
                    confidence |-> d.confidence, error |-> FALSE]
          /\ text' = MistralText(text, raw)
    /\ calls' = [calls EXCEPT !.vision_remote = @ + 2]
    /\ pc' = "escalate"
    /\ UNCHANGED <<tasks, handle, exc, unit, cfg, served, req, files, cleanupCalls, bgTasks, ocr, llm,
                   analysis, result, ret, response>>

----------------------------------------------------------------------------
\* LLM adapter (LLMService).

\* The degraded result of analyze_document_text / analyze_document_image; the
\* image variant carries raw_text "".
Degraded(kind, err) ==
    Dict("sconosciuto", {0}, "empty",
         IF kind = "image" THEN EmptyText ELSE AbsentText, err, <<>>)

\* JSON objects the remote model may answer with.
ReplyObjects ==
    {Dict("fattura", {95}, "dict", MkText("model", 300, 0), "", <<>>),
     Dict("scontrino", {60}, "empty", AbsentText, "", <<>>),
     Dict("<absent>", {}, "nondict", EmptyText, "", <<>>),
     Dict("bilancio", {150}, "dict", AbsentText, "", <<>>)}

\* What one attempt of the remote call can end with.
FailureKinds ==
    {"timeout", "connect_error", "http_status", "bad_body", "no_choices",
     "not_json", "non_object"}
Outcomes ==
    [kind : FailureKinds, obj : {NoDict}] \cup [kind : {"object"}, obj : ReplyObjects]

\* retry_if_exception_type((httpx.RequestError, httpx.TimeoutException))
ShouldRetry(o) == o.kind \in {"timeout", "connect_error"}

\* A stop condition that allows one attempt more.
RetriesExhausted_OneMore(log) == Len(log) >= MaxAttempts + 1

\* stop_after_attempt(3)
RetriesExhausted(log) == Len(log) >= MaxAttempts

\* An exception that leaves analyze_document_* instead of a dict.
Raised == Dict("<raised>", {}, "<absent>", AbsentText, "exception", <<>>)

\* A parser whose JSONDecodeError is not caught.
OnParseFailure_Uncaught(kind) == Raised

\* except json.JSONDecodeError around json.loads(content).
OnParseFailure(kind) == Degraded(kind, "Errore nel parsing JSON")

\* The outer except Exception of analyze_document_*: error = str(e).
OnAnalysisException(kind, e) == Degraded(kind, e)

\* analyze_document_* after the remote call: the parsed reply of a call that
\* returned, or the degraded result for what was raised. A reply that is
\* valid JSON but no object fails at analysis.get in the outer try.
AnalyzeReturn(kind, o) ==
    CASE o.kind = "object" -> o.obj
      [] o.kind = "not_json" -> OnParseFailure(kind)
      [] o.kind = "non_object" ->
            OnAnalysisException(kind, "AttributeError: no attribute 'get'")
      [] o.kind = "no_choices" -> OnAnalysisException(kind, "KeyError: 'choices'")
      [] o.kind = "http_status" -> OnAnalysisException(kind, "HTTPStatusError")
      [] o.kind = "bad_body" -> OnAnalysisException(kind, "JSONDecodeError")
      [] OTHER -> OnAnalysisException(kind, "RetryError")

\* The test of _process_image on the text process_image returned.
ShouldEscalate(t) == StripLen(t) < EscalationThreshold

\* _process_image chooses analyze_document_image or analyze_document_text;
\* the adapter builds its prompt, where a hint that is a plain string has no
\* attribute .value and the except clause returns the degraded result.
StartAnalysis ==
    /\ pc = "escalate"
    /\ LET kind == IF ShouldEscalate(text) THEN "image" ELSE "text" IN
          /\ llm' = [kind |-> kind, log |-> <<>>, inflight |-> 0, waits |-> 0]
          /\ calls' = IF kind = "image"
                      THEN [calls EXCEPT !.fallback = @ + 1]
                      ELSE [calls EXCEPT !.text_analysis = @ + 1]
          /\ IF req.hint.kind = "str"
             THEN /\ analysis' = OnAnalysisException(
                                     kind, "AttributeError: no attribute 'value'")
                  /\ pc' = "analysis_done"
             ELSE /\ pc' = "llm_attempt"
                  /\ UNCHANGED analysis
    /\ UNCHANGED <<tasks, handle, exc, unit, cfg, served, req, files, cleanupCalls, bgTasks, ocr, mv,
                   text, result, ret, response>>

\* An attempt of call_llm_api / analyze_image starts: client.post is awaited.
LlmSend ==
    /\ pc = "llm_attempt"
    /\ llm' = [llm EXCEPT !.inflight = @ + 1]
    /\ pc' = "llm_wait"
    /\ UNCHANGED <<tasks, handle, exc, unit, cfg, served, req, files, cleanupCalls, bgTasks,
                   ocr, mv, text, analysis, result, ret, response, calls>>

\* A retry that starts without the wait between two attempts.
AfterRetryableFailure_NoWait == "llm_attempt"

\* Where the tenacity loop goes after a failure it retries: to the sleep.
AfterRetryableFailure == "llm_backoff"

\* The attempt of call_llm_api / analyze_image under the tenacity decorator
\* ends: the awaited post returns or raises.
LlmAttempt ==
    /\ pc = "llm_wait"
    /\ \E o \in Outcomes :
          LET log == Append(llm.log, o) IN
          /\ llm' = [llm EXCEPT !.log = log, !.inflight = @ - 1]
          /\ IF ShouldRetry(o) /\ ~RetriesExhausted(log)
             THEN /\ pc' = AfterRetryableFailure
                  /\ UNCHANGED analysis
             ELSE /\ pc' = "analysis_done"
                  /\ analysis' = AnalyzeReturn(llm.kind, o)
    /\ calls' = [calls EXCEPT !.llm_remote = @ + 1]
    /\ UNCHANGED <<tasks, handle, exc, unit, cfg, served, req, files, cleanupCalls, bgTasks, ocr, mv,
                   text, result, ret, response>>

\* wait_exponential(multiplier=1, min=2, max=10) between two attempts.
LlmBackoff ==
    /\ pc = "llm_backoff"
    /\ pc' = "llm_attempt"
    /\ llm' = [llm EXCEPT !.waits = @ + 1]
    /\ UNCHANGED <<tasks, handle, exc, unit, cfg, served, req, files, cleanupCalls, bgTasks, ocr, mv,
                   text, analysis, result, ret, response, calls>>

\* Notes that do not report the error of the analysis.
ImageNotes_NoError(a, o) ==
    IF o.confidence < OcrConfidenceThreshold
    THEN <<"Bassa confidenza OCR">> ELSE <<>>

\* The processing notes of _process_image.
ImageNotes(a, o) ==
    (IF a.error # "" THEN <<"Errore nell'analisi">> ELSE <<>>)
    \o (IF o.confidence < OcrConfidenceThreshold
        THEN <<"Bassa confidenza OCR">> ELSE <<>>)

\* The override of the archived processor, with the cutoff itself included.
ApplyVisionDetection_AtCutoff(a, v) ==
    IF v.present /\ v.confidence >= VisionOverrideThreshold
    THEN [a EXCEPT !.document_type = v.document_type,
                   !.confidence_score = {v.confidence}]
    ELSE a

\* What _process_image takes from image_analysis: image_info and ocr_info
\* only; image_analysis["mistral_vision"] is not read, so the detection of
\* Mistral Vision changes neither document_type nor confidence_score.
ApplyVisionDetection(a, v) == a

\* The rest of _process_image once the analysis is back; an exception is
\* logged and re-raised to the processor.
FinishImage ==
    /\ pc = "analysis_done"
    /\ IF analysis = Raised
       THEN /\ exc' = "analysis"
            /\ pc' = "except"
            /\ UNCHANGED <<text, result>>
       ELSE /\ LET vis == analysis.raw_text # AbsentText /\ Truthy(analysis.raw_text)
                   a == IF llm.kind = "image" THEN analysis
                        ELSE [analysis EXCEPT !.raw_text = text]
               IN /\ text' = IF llm.kind = "image" /\ vis
                              THEN analysis.raw_text ELSE text
                  /\ result' = [ApplyVisionDetection(a, mv) EXCEPT
                                    !.processing_notes = ImageNotes(analysis, ocr)]
            /\ pc' = "return"
            /\ UNCHANGED exc
    /\ UNCHANGED <<tasks, handle, unit, cfg, served, req, files, cleanupCalls, bgTasks, ocr, mv,
                   llm, analysis, ret, response, calls>>

----------------------------------------------------------------------------
\* PDF path.

\* PDFProcessor.process_pdf(file, document_type) awaits file.read() and, in
\* its except clause, reads file.filename. DocumentProcessor._process_pdf
\* passes the temp file's path: a str has neither, so the AttributeError of
\* the except clause leaves process_pdf. A file object gets the result dict.
process_pdf(file, r) ==
    IF file = "path"
    THEN [raised |-> TRUE, d |-> NoDict]
    ELSE [raised |-> FALSE,
          d |-> Dict(IF r.hint.kind # "none" THEN r.hint.val ELSE "documento_generico",
                     {}, "dict", AbsentText, "", <<>>)]

\* DocumentProcessor._process_pdf: an exception is logged and re-raised; a
\* result that carries extracted_data skips the LLM analysis.
ProcessPdf ==
    /\ pc = "pdf"
    /\ LET p == process_pdf("path", req) IN
          IF p.raised
          THEN /\ exc' = "AttributeError"
               /\ pc' = "except"
               /\ UNCHANGED result
          ELSE /\ result' = p.d
               /\ pc' = "return"
               /\ UNCHANGED exc
    /\ UNCHANGED <<tasks, handle, unit, cfg, served, req, files, cleanupCalls, bgTasks, ocr, mv,
                   text, llm, analysis, ret, response, calls>>

----------------------------------------------------------------------------
\* Tabular path (TabularProcessor).

\* Case-insensitive substring test on the names of the model.
Substr(k, s) ==
    k = s \/ <<k, s>> \in {<<"fattura", "fattura_test">>, <<"bilancio", "bilancio_2023">>}
HasKeyword(strs, kws) == \E s \in strs, k \in kws : Substr(k, s)

\* Column names of the first record of the sheet; {} for a sheet without rows.
ColumnSets == {{}, {"numero", "importo", "iva"}, {"codice", "descrizione"}}

\* TabularProcessor._detect_document_type
TabularDetect(cols, stem) ==
    IF HasKeyword({stem}, {"fattura", "invoice"}) THEN "fattura"
    ELSE IF HasKeyword({stem}, {"bilancio", "balance"}) THEN "bilancio"
    ELSE IF HasKeyword({stem}, {"magazzino", "inventory", "stock"}) THEN "magazzino"
    ELSE IF HasKeyword({stem}, {"corrispettivo", "receipt"}) THEN "corrispettivo"
    ELSE IF HasKeyword({stem}, {"analisi", "report", "analysis"}) THEN "analisi_mercato"
    ELSE IF cols = {} THEN "documento_generico"
    ELSE IF HasKeyword(cols, {"fattura", "invoice", "importo", "iva"}) THEN "fattura"
    ELSE IF HasKeyword(cols, {"bilancio", "balance", "attivo", "passivo"}) THEN "bilancio"
    ELSE IF HasKeyword(cols, {"magazzino", "inventory", "stock", "quantità"}) THEN "magazzino"
    ELSE IF HasKeyword(cols, {"corrispettivo", "receipt", "scontrino"}) THEN "corrispettivo"
    ELSE IF HasKeyword(cols, {"analisi", "report", "mercato", "trend"}) THEN "analisi_mercato"
    ELSE "documento_generico"

\* detected_type = document_type or _detect_document_type(...)
HintOrDetect(hint, cols, stem) ==
    IF hint.kind # "none" THEN hint.val ELSE TabularDetect(cols, stem)

\* pandas.read_csv refuses the pair error_bad_lines / on_bad_lines that
\* _csv_to_json passes together.
read_csv(error_bad_lines_given, on_bad_lines_given) ==
    IF error_bad_lines_given /\ on_bad_lines_given THEN "raises" ELSE "ok"

\* TabularProcessor.process_tabular as awaited by the processor: it has no
\* except clause, so pd.ExcelFile on unreadable bytes and read_csv raise to
\* the caller; the result dict carries no confidence_score and no raw_text.
\* mock_file.close() follows the await of process_tabular in the try block:
\* an exception of the decoder skips it and the handle stays as it was.
AfterDecoderRaised(h) == h

ProcessTabular ==
    /\ pc = "tabular"
    /\ \E readable \in (IF req.size = 0 THEN {FALSE} ELSE BOOLEAN), cols \in ColumnSets :
          IF \/ is_allowed_excel(req) /\ ~readable
             \/ is_allowed_csv(req) /\ read_csv(TRUE, TRUE) = "raises"
          THEN /\ exc' = "ValueError"
               /\ pc' = "except"
               /\ handle' = AfterDecoderRaised("open")
               /\ UNCHANGED result
          ELSE /\ result' = Dict(HintOrDetect(req.hint, cols, req.stem), {}, "dict",
                                 AbsentText, "", <<>>)
               /\ pc' = "return"
               /\ handle' = "closed"
               /\ UNCHANGED exc
    /\ UNCHANGED <<tasks, unit, cfg, served, req, files, cleanupCalls, bgTasks, ocr, mv,
                   text, llm, analysis, ret, response, calls>>

----------------------------------------------------------------------------
\* Result assembly in DocumentProcessor.

\* ClaudeFormatter.format_for_claude on the defaults process_for_claude
\* reads with result.get: the type and the score go through unchanged; an
\* exception of the type-specific formatter gives the fallback with score 0.
format_for_claude(res) ==
    LET dt == IF res.document_type = "<absent>" THEN "documento_generico"
              ELSE res.document_type
        cs == IF res.confidence_score = {} THEN {80} ELSE res.confidence_score
        ed == IF res.extracted_data = "<absent>" THEN "empty" ELSE res.extracted_data
    IN IF ed = "nondict"
       THEN Dict(dt, {0}, ed, AbsentText, "formatter", <<>>)
       ELSE Dict(dt, cs, ed, res.raw_text, "", <<>>)

\* The value of the try block of process_document / process_for_claude.
OnSuccess(flow, res) ==
    IF flow = "process-document"
    THEN [view |-> "normal", raised |-> FALSE, d |-> res]
    ELSE [view |-> "claude", raised |-> FALSE, d |-> format_for_claude(res)]

\* A processor without except clause: the exception goes to the caller.
OnException_Reraise(flow, e) ==
    [view |-> "none", raised |-> TRUE, d |-> NoDict]

\* The value of the except clause of process_document / process_for_claude.
OnException(flow, e) ==
    IF flow = "process-document"
    THEN [view |-> "normal", raised |-> FALSE,
          d |-> Dict("documento_generico", {0}, "empty", EmptyText, e,
                     <<"Errore durante il processamento">>)]
    ELSE [view |-> "claude", raised |-> FALSE,
          d |-> Dict("error", {0}, "empty", AbsentText, e, <<>>)]

\* End of the try block, then the finally clause.
ReturnResult ==
    /\ pc = "return"
    /\ ret' = OnSuccess(req.flow, result)
    /\ files' = cleanup_temp_file(files, "upload")
    /\ cleanupCalls' = cleanupCalls + 1
    /\ pc' = "returned"
    /\ UNCHANGED <<tasks, handle, exc, unit, cfg, served, req, bgTasks, ocr, mv, text, llm,
                   analysis, result, response, calls>>

\* The except clause, then the finally clause.
HandleException ==
    /\ pc = "except"
    /\ ret' = OnException(req.flow, exc)
    /\ files' = cleanup_temp_file(files, "upload")
    /\ cleanupCalls' = cleanupCalls + 1
    /\ pc' = "returned"
    /\ UNCHANGED <<tasks, handle, exc, unit, cfg, served, req, bgTasks, ocr, mv, text, llm,
                   analysis, result, response, calls>>

----------------------------------------------------------------------------
\* Endpoints of main.py after the processor came back.

\* result.get with the defaults of the /process-document response; an id is
\* modelled by where it was generated, and document_id is the request_id the
\* endpoint drew with uuid4 on entry.
ProcessDocumentResponse(d) ==
    [status |-> 200, document_id |-> "request_id",
     document_type |-> IF d.document_type = "<absent>" THEN "sconosciuto"
                       ELSE d.document_type,
     confidence_score |-> IF d.confidence_score = {} THEN {0} ELSE d.confidence_score,
     processing_notes |-> d.processing_notes, detail |-> {}]

\* ClaudeFormatResponse of /process-for-claude: processing_notes=[]
ClaudeResponse(d) ==
    [status |-> 200, document_id |-> "request_id",
     document_type |-> d.document_type,
     confidence_score |-> d.confidence_score, processing_notes |-> <<>>,
     detail |-> {}]

\* /process-document: the response, or the HTTP 500 of the except clause.
RespondProcessDocument ==
    /\ pc = "returned"
    /\ req.entry = "api"
    /\ req.flow = "process-document"
    /\ response' = IF ret.raised THEN [NoResponse EXCEPT !.status = 500]
                   ELSE ProcessDocumentResponse(ret.d)
    /\ pc' = "done"
    /\ UNCHANGED <<tasks, handle, exc, unit, cfg, served, req, files, cleanupCalls, bgTasks, ocr,
                   mv, text, llm, analysis, result, ret, calls>>

\* Background tasks main.py queues on the response of /process-for-claude.
QueuedCleanups(raised) == IF raised THEN 0 ELSE 1

\* /process-for-claude: cleanup_temp_file is queued as a background task
\* and the response is returned; an exception ends in the HTTP 500, whose
\* response does not carry the queued task.
RespondForClaude ==
    /\ pc = "returned"
    /\ req.entry = "api"
    /\ req.flow = "process-for-claude"
    /\ response' = IF ret.raised THEN [NoResponse EXCEPT !.status = 500]
                   ELSE ClaudeResponse(ret.d)
    /\ bgTasks' = QueuedCleanups(ret.raised)
    /\ pc' = IF QueuedCleanups(ret.raised) > 0 THEN "background" ELSE "done"
    /\ UNCHANGED <<tasks, handle, exc, unit, cfg, served, req, files, cleanupCalls, ocr, mv, text,
                   llm, analysis, result, ret, calls>>

\* The background task runs after the response was sent.
RunBackgroundTask ==
    /\ pc = "background"
    /\ bgTasks > 0
    /\ files' = cleanup_temp_file(files, "upload")
    /\ cleanupCalls' = cleanupCalls + 1
    /\ bgTasks' = bgTasks - 1
    /\ pc' = IF bgTasks = 1 THEN "done" ELSE "background"
    /\ UNCHANGED <<tasks, handle, exc, unit, cfg, served, req, ocr, mv, text, llm, analysis,
                   result, ret, response, calls>>

\* The method returns to a caller inside the process.
ReturnToCaller ==
    /\ pc = "returned"
    /\ req.entry = "direct"
    /\ pc' = "done"
    /\ UNCHANGED <<tasks, handle, exc, unit, cfg, served, req, files, cleanupCalls, bgTasks, ocr,
                   mv, text, llm, analysis, result, ret, response, calls>>

\* The request is over; the next one starts from fresh request-scoped state.
Finish ==
    /\ pc = "done"
    /\ served' = served + 1
    /\ pc' = "idle"
    /\ req' = NoReq
    /\ cleanupCalls' = 0
    /\ bgTasks' = 0
    /\ ocr' = NoOcr
    /\ mv' = NoMv
    /\ text' = AbsentText
    /\ llm' = NoLlm
    /\ analysis' = NoDict
    /\ result' = NoDict
    /\ ret' = NoRet
    /\ response' = NoResponse
    /\ calls' = NoCalls
    /\ exc' = ""
    /\ handle' = "none"
    /\ UNCHANGED <<tasks, unit, cfg, files>>

Next ==
    \/ Submit
    \/ ValidateFile
    \/ SaveUploadFile
    \/ DirectCall
    \/ Dispatch
    \/ PreprocessImage
    \/ RunOcr
    \/ MistralAdvanced
    \/ StartAnalysis
    \/ LlmSend
    \/ LlmAttempt
    \/ LlmBackoff
    \/ FinishImage
    \/ ProcessPdf
    \/ ProcessTabular
    \/ ReturnResult
    \/ HandleException
    \/ RespondProcessDocument
    \/ RespondForClaude
    \/ RunBackgroundTask
    \/ ReturnToCaller
    \/ Finish

Spec == Init /\ [][Next]_vars

----------------------------------------------------------------------------
\* Properties.

\* The processor method of the request has come back to its caller.
ProcessorCameBack ==
    pc \in {"returned", "background", "done"} /\ calls.processor > 0

FixedTypes ==
    {"fattura", "bilancio", "magazzino", "corrispettivo", "analisi_mercato",
     "documento_generico", "error"}

\* The degraded result of the model adapter.
IsDegraded(d) ==
    /\ d.document_type = "sconosciuto"
    /\ d.confidence_score = {0}
    /\ d.extracted_data = "empty"
    /\ d.error # ""

LastAttempt == llm.log[Len(llm.log)]

\* C1: for every request whose upload was saved, cleanup_temp_file has been
\* invoked exactly once on the temp file when the request is complete, on
\* success and on failure, in the /process-document and in the
\* /process-for-claude flow.
C1_CleanupExactlyOnce ==
    (pc = "done" /\ calls.processor > 0) => cleanupCalls = 1

\* C2: DocumentProcessor.process_document lets no exception escape: it
\* returns a dict, and when an exception reached it (a 0-byte .pdf included)
\* the dict has document_type error, or documento_generico with confidence 0,
\* empty extracted_data and an explanatory note.
C2_ProcessDocumentNeverRaises ==
    (ProcessorCameBack /\ req.flow = "process-document") =>
        /\ ~ret.raised
        /\ ret.view = "normal"
        /\ exc # "" =>
              /\ \/ ret.d.document_type = "error"
                 \/ /\ ret.d.document_type = "documento_generico"
                    /\ ret.d.confidence_score = {0}
              /\ ret.d.extracted_data = "empty"
              /\ Len(ret.d.processing_notes) > 0

C2_Witness ==
    /\ pc = "returned"
    /\ req.flow = "process-document"
    /\ get_file_extension(req) = "pdf"
    /\ req.size = 0
    /\ exc = "AttributeError"
    /\ ~ret.raised
    /\ ret.d.document_type = "documento_generico"

\* C3: when the reply of the model cannot be parsed as one JSON object,
\* analyze_document_text and analyze_document_image do not raise: they return
\* document_type sconosciuto, confidence 0.0, empty extracted_data and a
\* non-empty error.
C3_UnparseableReplyDegrades ==
    (/\ pc = "analysis_done"
     /\ Len(llm.log) > 0
     /\ LastAttempt.kind \in {"not_json", "non_object"}) =>
        /\ analysis # Raised
        /\ IsDegraded(analysis)

C3_Witness ==
    /\ pc = "analysis_done"
    /\ llm.kind = "image"
    /\ Len(llm.log) = 1
    /\ LastAttempt.kind = "not_json"
    /\ IsDegraded(analysis)

\* C4: the model is called at most three times for one analysis; an attempt
\* follows another only after a transient network or timeout failure; three
\* timeouts give the degraded result; a success after fewer than three
\* failures is returned as the model gave it.
C4_RetryPolicy ==
    /\ Len(llm.log) <= MaxAttempts
    /\ calls.llm_remote = Len(llm.log)
    /\ \A i \in 1..(Len(llm.log) - 1) :
          llm.log[i].kind \in {"timeout", "connect_error"}
    /\ (/\ pc = "analysis_done"
        /\ Len(llm.log) = MaxAttempts
        /\ \A i \in 1..MaxAttempts : llm.log[i].kind = "timeout") =>
          IsDegraded(analysis)
    /\ (/\ pc = "analysis_done"
        /\ Len(llm.log) > 0
        /\ LastAttempt.kind = "object") =>
          analysis = LastAttempt.obj

C4_Witness ==
    /\ pc = "analysis_done"
    /\ Len(llm.log) = MaxAttempts
    /\ llm.log[1].kind = "timeout"
    /\ llm.log[2].kind = "timeout"
    /\ llm.log[3].kind = "object"
    /\ analysis = llm.log[3].obj
    /\ analysis.document_type = "fattura"

\* The remote model failed for good: a non-2xx status, a body that is no
\* JSON, or a transient failure on the last attempt allowed.
UpstreamFailed ==
    /\ Len(llm.log) > 0
    /\ \/ LastAttempt.kind \in {"http_status", "bad_body"}
       \/ Len(llm.log) = MaxAttempts /\ LastAttempt.kind \in {"timeout", "connect_error"}

C6_TypeInFixedSet ==
    /\ ProcessorCameBack => ret.d.document_type \in FixedTypes
    /\ (pc = "done" /\ response.status = 200) => response.document_type \in FixedTypes

\* The image was processed without an exception, the path has no heuristic
\* and the model gave no result.
NoConclusiveSignal ==
    exc = "" /\ llm.kind # "none" /\ analysis.error # ""

\* C7: every result, in the normal and in the assistant-ready view, carries
\* a confidence in [0, 1]; when no signal is conclusive the type is
\* documento_generico and the confidence is 0.
C7_ConfidenceInUnitInterval ==
    ProcessorCameBack =>
        /\ ret.d.confidence_score # {}
        /\ ret.d.confidence_score \subseteq 0..100
        /\ NoConclusiveSignal =>
              /\ ret.d.document_type = "documento_generico"
              /\ ret.d.confidence_score = {0}

\* C8: once a request is complete no temp file of it exists, neither the
\* saved upload nor a preprocessed image, whatever branch was taken.
C8_NoTempFileLeft ==
    pc \in {"done", "idle"} => files = {}

C8_Witness ==
    /\ pc = "done"
    /\ exc # ""
    /\ cleanupCalls > 0
    /\ files = {}

\* _process_image has decided between the fallback and the text analysis.
ImageDecided ==
    /\ ocr.text # AbsentText
    /\ pc \in {"llm_attempt", "llm_wait", "llm_backoff", "analysis_done", "return", "except",
               "returned", "background", "done"}

\* C9: the vision fallback is invoked exactly once when the trimmed OCR text
\* has fewer than 200 characters, and not at all when it has 200 or more.
C9_FallbackIffShortOcr ==
    ImageDecided =>
        calls.fallback = (IF StripLen(ocr.text) < EscalationThreshold THEN 1 ELSE 0)

\* C10: with the vision flag off and an OCR text under 200 characters the
\* vision service is not called, raw_text is the OCR text as it is, and the
\* notes say the text was insufficient and name no vision step.
C10_VisionFlagOff ==
    (/\ ProcessorCameBack
     /\ ~cfg.vision
     /\ req.flow = "process-document"
     /\ ocr.text # AbsentText
     /\ exc = ""
     /\ StripLen(ocr.text) < EscalationThreshold) =>
        /\ calls.fallback = 0
        /\ calls.vision_remote = 0
        /\ ret.d.raw_text = ocr.text
        /\ \E i \in DOMAIN ret.d.processing_notes :
              ret.d.processing_notes[i] = "Testo insufficiente"

\* C11: whenever the OCR confidence of a processed image is below 70, the
\* note that the results may be inaccurate is appended and is among the
\* processing_notes of the response the caller receives, on every endpoint
\* that processes the image.
C11_LowOcrNoteReachesCaller ==
    (/\ ocr # NoOcr
     /\ ocr.confidence < OcrConfidenceThreshold
     /\ exc = "") =>
        /\ pc \in {"return", "returned", "background", "done"} =>
              \E i \in DOMAIN result.processing_notes :
                  result.processing_notes[i] = "Bassa confidenza OCR"
        /\ (pc = "done" /\ req.entry = "api") =>
              /\ response.status = 200
              /\ \E i \in DOMAIN response.processing_notes :
                    response.processing_notes[i] = "Bassa confidenza OCR"


\* The request carries a client input error: no file name, an extension the
\* service does not accept, or more bytes than the configured maximum.
ClientInputError(r) ==
    \/ r.stem = "" /\ r.ext = ""
    \/ Lower(r.ext) \notin (ALLOWED_IMAGE_EXTENSIONS \cup ALLOWED_PDF_EXTENSIONS
                             \cup ALLOWED_EXCEL_EXTENSIONS \cup ALLOWED_CSV_EXTENSIONS)
    \/ r.size > MAX_FILE_SIZE_MB * 1024 * 1024

\* C12: a request over the API with a client input error (missing file,
\* unsupported extension, file over the configured maximum) is rejected
\* before the pipeline: its upload is never saved to temp storage and the
\* document processor is never invoked for it.
C12_ClientErrorNeverEntersPipeline ==
    (req.entry = "api" /\ ClientInputError(req)) =>
        /\ "upload" \notin files
        /\ calls.processor = 0
        /\ cleanupCalls = 0
        /\ pc \in {"validate", "done"}
        /\ pc = "done" => response.status = 400

C12_Witness ==
    /\ pc = "done"
    /\ req.entry = "api"
    /\ get_file_extension(req) = "jpg"
    /\ req.size = MAX_FILE_SIZE_MB * 1024 * 1024 + 1
    /\ response.status = 400
    /\ files = {}
    /\ calls.processor = 0


\* C13: an upload with an unsupported extension is answered with status 400
\* whose message names the allowed extensions: those of images, PDF,
\* spreadsheets and delimited text.
C13_UnsupportedExtensionNamesAllowedSet ==
    (/\ pc = "done"
     /\ req.entry = "api"
     /\ req.stem # ""
     /\ ~is_allowed_file(req)) =>
        /\ response.status = 400
        /\ response.detail = ALLOWED_IMAGE_EXTENSIONS \cup ALLOWED_PDF_EXTENSIONS
                               \cup ALLOWED_EXCEL_EXTENSIONS \cup ALLOWED_CSV_EXTENSIONS


\* C14: fattura_test.csv (headers numero,importo,iva and one data row)
\* uploaded through the API is accepted by validation, decoded as delimited
\* text, matched as invoice on its filename, and the result has
\* document_type fattura.
C14_FatturaCsvScenario ==
    (/\ pc = "done"
     /\ req.entry = "api"
     /\ req.flow = "process-document"
     /\ req.stem = "fattura_test"
     /\ req.ext = "csv"
     /\ req.size = MAX_FILE_SIZE_MB * 1024 * 1024) =>
        /\ response.status = 200
        /\ calls.processor = 1
        /\ response.document_type = "fattura"


\* C15: the result of the LLM text/image analysis replaces the
\* classification obtained so far, its document_type and confidence_score
\* taken as they are, exactly when its error field is unset; an analysis
\* whose error field is set leaves the earlier classification in place (on
\* the image path, which has no heuristic, the generic one).
C15_LlmResultAppliedIffNoError ==
    (/\ pc \in {"return", "returned", "background", "done"}
     /\ llm.kind # "none"
     /\ exc = "") =>
        IF analysis.error = ""
        THEN /\ result.document_type = analysis.document_type
             /\ result.confidence_score = analysis.confidence_score
        ELSE result.document_type = "documento_generico"


\* C16: a document-type detection of the vision model with confidence 0.7
\* or less is ignored: the document_type and confidence_score set by the
\* earlier sources stay as they were; only a detection above 0.7 may replace
\* them.
C16_LowConfidenceVisionIgnored ==
    (/\ pc \in {"return", "returned", "background", "done"}
     /\ exc = ""
     /\ mv.present
     /\ mv.confidence <= VisionOverrideThreshold) =>
        /\ result.document_type = analysis.document_type
        /\ result.confidence_score = analysis.confidence_score

C16_Witness ==
    /\ pc = "return"
    /\ mv.present
    /\ mv.confidence = VisionOverrideThreshold
    /\ mv.document_type = "scontrino"
    /\ analysis.document_type = "fattura"
    /\ result.document_type = "fattura"
    /\ result.confidence_score = {95}


----------------------------------------------------------------------------
\* Stand-alone functions of the services, applied to inputs of their own.

\* The text of a PDF page: nonws characters that are not whitespace, inner
\* whitespace characters between them, pad whitespace characters around
\* them; NoPageText is the None of a page without text layer.
NoPageText == [nonws |-> 0, inner |-> 0, pad |-> 0, none |-> TRUE]
PageTexts ==
    {NoPageText} \cup
    {t \in [nonws : {0, 30, 50, 51}, inner : {0, 1, 25}, pad : 0..MaxPad,
            none : {FALSE}] : t.nonws = 0 => t.inner = 0}

\* len(text.strip()) of a page text.
PageStripLen(t) == t.nonws + t.inner

\* Sequences over S of length 1..n.
SeqsUpTo(S, n) == UNION {[1..k -> S] : k \in 1..n}

\* A probe for which a page of exactly 50 characters is already native.
check_pdf_type_AtLeast(pages) ==
    [is_native |-> \E i \in DOMAIN pages :
                      /\ ~pages[i].none
                      /\ pages[i].nonws + pages[i].inner + pages[i].pad > 0
                      /\ PageStripLen(pages[i]) >= MinTextLength,
     page_count |-> Len(pages)]

\* PDFProcessor._check_pdf_type: (is_native, page_count).
check_pdf_type(pages) ==
    [is_native |-> \E i \in DOMAIN pages :
                      /\ ~pages[i].none
                      /\ pages[i].nonws + pages[i].inner + pages[i].pad > 0
                      /\ PageStripLen(pages[i]) > MinTextLength,
     page_count |-> Len(pages)]

CheckPdfType ==
    /\ unit = NoUnit
    /\ \E pages \in SeqsUpTo(PageTexts, MaxPages) :
          unit' = [fn |-> "_check_pdf_type", input |-> pages,
                   output |-> check_pdf_type(pages)]
    /\ UNCHANGED <<tasks, handle, pc, cfg, served, req, files, cleanupCalls, bgTasks, ocr, mv,
                   text, llm, analysis, result, ret, response, calls, exc>>

\* Filenames and contents the detectors are applied to: a content is the set
\* of words the text, or the header row, contains.
DetectorStems == {"doc", "fattura_test", "bilancio_2023", "report"}
PdfWords == {"iva", "conto economico", "trend", "lorem"}
HeaderWords == {"importo", "attivo", "trend", "codice"}

\* PDFProcessor._detect_document_type
detect_pdf_document_type(words, stem) ==
    IF \/ HasKeyword({stem}, {"fattura", "invoice"})
       \/ HasKeyword(words, {"fattura", "invoice", "partita iva", "codice fiscale",
                             "imponibile", "iva"})
    THEN "fattura"
    ELSE IF \/ HasKeyword({stem}, {"bilancio", "balance"})
            \/ HasKeyword(words, {"bilancio", "stato patrimoniale", "conto economico",
                                  "balance sheet", "income statement"})
    THEN "bilancio"
    ELSE IF \/ HasKeyword({stem}, {"magazzino", "inventory", "stock"})
            \/ HasKeyword(words, {"magazzino", "inventario", "stock", "quantità",
                                  "giacenza"})
    THEN "magazzino"
    ELSE IF \/ HasKeyword({stem}, {"corrispettivo", "receipt", "scontrino"})
            \/ HasKeyword(words, {"corrispettivo", "scontrino", "ricevuta", "receipt"})
    THEN "corrispettivo"
    ELSE IF \/ HasKeyword({stem}, {"analisi", "report", "analysis", "market"})
            \/ HasKeyword(words, {"analisi", "report", "mercato", "trend",
                                  "previsioni", "forecast"})
    THEN "analisi_mercato"
    ELSE "documento_generico"

DetectPdfType ==
    /\ unit = NoUnit
    /\ \E words \in SUBSET PdfWords, stem \in DetectorStems :
          unit' = [fn |-> "pdf_detect", input |-> [content |-> words, stem |-> stem],
                   output |-> detect_pdf_document_type(words, stem)]
    /\ UNCHANGED <<tasks, handle, pc, cfg, served, req, files, cleanupCalls, bgTasks, ocr, mv,
                   text, llm, analysis, result, ret, response, calls, exc>>

DetectTabularType ==
    /\ unit = NoUnit
    /\ \E cols \in SUBSET HeaderWords, stem \in DetectorStems :
          unit' = [fn |-> "tabular_detect", input |-> [content |-> cols, stem |-> stem],
                   output |-> TabularDetect(cols, stem)]
    /\ UNCHANGED <<tasks, handle, pc, cfg, served, req, files, cleanupCalls, bgTasks, ocr, mv,
                   text, llm, analysis, result, ret, response, calls, exc>>

\* A line of a CSV file: the set of candidate delimiters it contains.
Delimiters == {";", "\t", "|", ","}

\* A choice that looks for the tab before the semicolon.
detect_separator_TabFirst(lines) ==
    LET first_line == lines[1] IN
    IF "\t" \in first_line THEN "\t"
    ELSE IF ";" \in first_line THEN ";"
    ELSE IF "|" \in first_line THEN "|"
    ELSE ","

\* The separator _csv_to_json picks from file_content_str.split('\n')[0].
detect_separator(lines) ==
    LET first_line == lines[1] IN
    IF ";" \in first_line THEN ";"
    ELSE IF "\t" \in first_line THEN "\t"
    ELSE IF "|" \in first_line THEN "|"
    ELSE ","

DetectSeparator ==
    /\ unit = NoUnit
    /\ \E lines \in SeqsUpTo(SUBSET Delimiters, MaxLines) :
          unit' = [fn |-> "separator", input |-> lines,
                   output |-> detect_separator(lines)]
    /\ UNCHANGED <<tasks, handle, pc, cfg, served, req, files, cleanupCalls, bgTasks, ocr, mv,
                   text, llm, analysis, result, ret, response, calls, exc>>

\* What the rasterisation and the OCR of one page of a scanned PDF give: the
\* text of the page, or an exception.
PageFails == "<raises>"
PageOutcomes == {"text_a", "text_b", PageFails}

\* PDFProcessor._extract_from_scanned_pdf, text_by_page and metadata["error"]:
\* key i of the Python dict is element i + 1, a missing key is "<absent>".
\* One try block holds the whole page loop: the first exception ends the loop
\* and the except clause stores its message under key 0.
extract_from_scanned_pdf(tesseract, pages) ==
    LET failing == {i \in DOMAIN pages : pages[i] = PageFails}
        k == IF failing = {} THEN 0
             ELSE CHOOSE i \in failing : \A j \in failing : i <= j
    IN IF ~tesseract
       THEN [text_by_page |-> <<"OCR non disponibile">>, error |-> TRUE]
       ELSE IF k = 0
       THEN [text_by_page |-> pages, error |-> FALSE]
       ELSE [text_by_page |-> [i \in DOMAIN pages |->
                                  IF i = 1 THEN "Errore nell'OCR"
                                  ELSE IF i < k THEN pages[i]
                                  ELSE "<absent>"],
             error |-> TRUE]

ExtractFromScannedPdf ==
    /\ unit = NoUnit
    /\ \E tesseract \in BOOLEAN, pages \in SeqsUpTo(PageOutcomes, MaxPages) :
          unit' = [fn |-> "_extract_from_scanned_pdf",
                   input |-> [tesseract |-> tesseract, pages |-> pages],
                   output |-> extract_from_scanned_pdf(tesseract, pages)]
    /\ UNCHANGED <<tasks, handle, pc, cfg, served, req, files, cleanupCalls, bgTasks, ocr, mv,
                   text, llm, analysis, result, ret, response, calls, exc>>

\* Results PDFProcessor.process_pdf can hand to _process_pdf: the result of
\* an extraction (extracted_data holds the text and the image count, no
\* raw_text key), the error result of its except clause (document_type
\* "error", no extracted_data), and results of other extractors with an
\* empty extracted_data or with a raw_text of their own.
PdfExtractorResults ==
    {Dict(dt, {}, ed, rt, "", notes) :
        dt \in {"error", "fattura"},
        ed \in {"<absent>", "empty", "dict"},
        rt \in {AbsentText, MkText("pdf", 300, 0)},
        notes \in {<<>>, <<"Errore durante l'elaborazione del PDF">>}}

\* The dicts analyze_document_text can return.
TextAnalyses == {AnalyzeReturn("text", o) : o \in Outcomes}

\* result.get("raw_text", "")
get_raw_text(res) == IF res.raw_text = AbsentText THEN EmptyText ELSE res.raw_text

\* result.update(analysis): a key of analysis replaces the same key of
\* result, a key analysis does not have is left as it was.
dict_update(res, a) ==
    [document_type |-> IF a.document_type = "<absent>" THEN res.document_type
                       ELSE a.document_type,
     confidence_score |-> IF a.confidence_score = {} THEN res.confidence_score
                          ELSE a.confidence_score,
     extracted_data |-> IF a.extracted_data = "<absent>" THEN res.extracted_data
                        ELSE a.extracted_data,
     raw_text |-> IF a.raw_text = AbsentText THEN res.raw_text ELSE a.raw_text,
     error |-> IF a.error = "" THEN res.error ELSE a.error,
     processing_notes |-> IF a.processing_notes = <<>> THEN res.processing_notes
                          ELSE a.processing_notes]

\* A _process_pdf that asks the LLM whatever the extractor returned.
process_pdf_after_extraction_Always(res, a) ==
    [llm_called |-> TRUE,
     d |-> [dict_update(res, a) EXCEPT !.raw_text = get_raw_text(res)]]

\* DocumentProcessor._process_pdf once process_pdf has returned res; a is
\* what analyze_document_text returns if it is called.
process_pdf_after_extraction(res, a) ==
    IF res.extracted_data \in {"<absent>", "empty"}
    THEN [llm_called |-> TRUE,
          d |-> [dict_update(res, a) EXCEPT !.raw_text = get_raw_text(res)]]
    ELSE [llm_called |-> FALSE, d |-> res]

ProcessPdfAfterExtraction ==
    /\ unit = NoUnit
    /\ \E res \in PdfExtractorResults, a \in TextAnalyses :
          unit' = [fn |-> "_process_pdf", input |-> [result |-> res, analysis |-> a],
                   output |-> process_pdf_after_extraction(res, a)]
    /\ UNCHANGED <<tasks, handle, pc, cfg, served, req, files, cleanupCalls, bgTasks, ocr, mv,
                   text, llm, analysis, result, ret, response, calls, exc>>

NextFunctions ==
    \/ CheckPdfType
    \/ DetectPdfType
    \/ DetectTabularType
    \/ DetectSeparator
    \/ ExtractFromScannedPdf
    \/ ProcessPdfAfterExtraction

SpecFunctions == Init /\ [][NextFunctions]_vars


\* The category the filename alone stands for, "none" without a filename
\* keyword; the PDF detector knows two filename keywords more.
NameCategory(fn, stem) ==
    LET pdf == fn = "pdf_detect" IN
    IF HasKeyword({stem}, {"fattura", "invoice"}) THEN "fattura"
    ELSE IF HasKeyword({stem}, {"bilancio", "balance"}) THEN "bilancio"
    ELSE IF HasKeyword({stem}, {"magazzino", "inventory", "stock"}) THEN "magazzino"
    ELSE IF HasKeyword({stem}, {"corrispettivo", "receipt"}
                               \cup (IF pdf THEN {"scontrino"} ELSE {}))
    THEN "corrispettivo"
    ELSE IF HasKeyword({stem}, {"analisi", "report", "analysis"}
                               \cup (IF pdf THEN {"market"} ELSE {}))
    THEN "analisi_mercato"
    ELSE "none"

\* C17: the heuristic detectors (PDF and tabular) decide by filename first:
\* a filename keyword decides the type whatever the text or the column
\* names contain; these are consulted only without a filename keyword, and
\* without any match the type is documento_generico.
C17_FilenameDecidesFirst ==
    unit.fn \in {"pdf_detect", "tabular_detect"} =>
        LET byName == NameCategory(unit.fn, unit.input.stem) IN
        /\ byName # "none" => unit.output = byName
        /\ (byName = "none" /\ unit.input.content \subseteq {"lorem", "codice"}) =>
              unit.output = "documento_generico"

C20_SeparatorPriority ==
    unit.fn = "separator" =>
        LET first_line == unit.input[1] IN
        /\ ";" \in first_line => unit.output = ";"
        /\ (";" \notin first_line /\ "\t" \in first_line) => unit.output = "\t"
        /\ (first_line \cap {";", "\t"} = {} /\ "|" \in first_line) => unit.output = "|"
        /\ first_line \cap {";", "\t", "|"} = {} => unit.output = ","

C20_Witness ==
    /\ unit.fn = "separator"
    /\ Len(unit.input) = 2
    /\ unit.input[1] = {";", "\t", ","}
    /\ unit.input[2] = {"|"}
    /\ unit.output = ";"


\* The format an extension stands for, whatever its case.
ExpectedFormat(ext) ==
    LET e == Lower(ext) IN
    IF e \in {"jpg", "jpeg", "png", "webp"} THEN "image"
    ELSE IF e = "pdf" THEN "pdf"
    ELSE IF e \in {"xls", "xlsx", "xlsm", "xlsb"} THEN "tabular"
    ELSE IF e = "csv" THEN "tabular"
    ELSE "unsupported"

\* C18: the format is detected from the extension without regard to case,
\* one format per upload (image, PDF, spreadsheet, delimited text, or
\* unsupported), and the upload validator and the dispatch of the processor
\* agree on it: the validator rejects an upload of allowed size exactly
\* when its format is unsupported, and the processor takes the branch of
\* the format.
C18_ValidatorAndDispatchAgree ==
    /\ (/\ pc = "done"
        /\ req.entry = "api"
        /\ req.stem # ""
        /\ req.size <= MAX_FILE_SIZE_MB * 1024 * 1024) =>
          (response.status = 400 <=> ExpectedFormat(req.ext) = "unsupported")
    /\ pc \in {"image", "pdf", "tabular"} => pc = ExpectedFormat(req.ext)


\* The tabular path of the request has run its decoder.
TabularCameBack ==
    /\ req # NoReq
    /\ DispatchTarget(req) = "tabular"
    /\ calls.processor > 0
    /\ pc \in {"except", "return", "returned", "background", "done"}

\* C21: process_tabular never raises, whatever the spreadsheet or the
\* delimited text holds: once the decoder has run, no exception is on its way
\* to the processor and the decoder has handed back a result dict.
C21_TabularDecoderNeverRaises ==
    TabularCameBack => exc = "" /\ result # NoDict


\* C22: in the scanned-PDF extraction a page that fails costs only its own
\* text: every page that did not fail keeps the text its OCR gave, whether it
\* comes before or after the failing page.
C22_PageFailureIsLocal ==
    (unit.fn = "_extract_from_scanned_pdf" /\ unit.input.tesseract) =>
        /\ Len(unit.output.text_by_page) = Len(unit.input.pages)
        /\ \A i \in DOMAIN unit.input.pages :
              unit.input.pages[i] # PageFails =>
                  unit.output.text_by_page[i] = unit.input.pages[i]


\* /process-document has answered a valid upload.
ProcessDocumentAnswered ==
    /\ pc = "done"
    /\ req.entry = "api"
    /\ req.flow = "process-document"
    /\ validate_file(req) = "ok"

\* The part of C23 about the call, the status, the type and the score.
C23_ResponseMirrorsResult ==
    ProcessDocumentAnswered =>
        /\ calls.processor = 1
        /\ response.status = 200
        /\ ret.d.document_type # "<absent>" =>
              response.document_type = ret.d.document_type
        /\ ret.d.confidence_score # {} =>
              response.confidence_score = ret.d.confidence_score

\* C23: for a valid upload /process-document calls the processor exactly
\* once and answers with status success and with the document_id, the
\* document_type and the confidence_score of the result the processor
\* returned; a document_id that comes from the processor's result is
\* "result.document_id".
C23_ResponseCarriesResultFields ==
    /\ C23_ResponseMirrorsResult
    /\ ProcessDocumentAnswered => response.document_id = "result.document_id"


\* C24: the processing_notes the caller receives are the notes the pipeline
\* emitted, all of them and in the order of emission: the response of a
\* request that was processed without exception carries exactly the sequence
\* of notes of the result the format-specific path built.
C24_EveryNoteReachesResponse ==
    (/\ pc = "done"
     /\ req.entry = "api"
     /\ exc = ""
     /\ result # NoDict) =>
        /\ response.status = 200
        /\ response.processing_notes = result.processing_notes


\* Positions of the image path: process_image is running (extraction), the
\* analysis of the LLM adapter is running (classification), the result was
\* assembled.
ExtractionPcs == {"image", "ocr", "mistral"}
ClassificationPcs == {"escalate", "llm_attempt", "llm_wait", "llm_backoff",
                      "analysis_done"}
AssembledPcs == {"return", "returned", "background", "done"}

\* C25: the stages of the pipeline run one after the other. While the
\* extraction runs no classification has started and nothing is assembled;
\* when the classification starts the extraction is complete (the OCR
\* result and the text are there, the preprocessed image is gone) and
\* nothing is assembled until it ends; a result is assembled only after the
\* classification has come back, with no attempt left in flight.
C25_StagesInOrder ==
    /\ pc \in ExtractionPcs =>
          /\ llm = NoLlm /\ analysis = NoDict /\ result = NoDict
          /\ calls.fallback = 0 /\ calls.text_analysis = 0 /\ calls.llm_remote = 0
    /\ pc \in ClassificationPcs =>
          /\ ocr # NoOcr /\ text # AbsentText /\ "preprocessed" \notin files
          /\ result = NoDict /\ ret = NoRet
    /\ (pc \in AssembledPcs /\ calls.processor > 0 /\ exc = ""
        /\ DispatchTarget(req) = "image") =>
          /\ ocr # NoOcr /\ analysis # NoDict /\ result # NoDict
          /\ llm.kind # "none" /\ llm.inflight = 0
          /\ calls.fallback + calls.text_analysis = 1
    /\ (pc \in AssembledPcs /\ calls.processor > 0 /\ exc = ""
        /\ DispatchTarget(req) = "tabular") =>
          result # NoDict /\ handle = "closed"

C25_Witness ==
    /\ pc = "return"
    /\ DispatchTarget(req) = "image"
    /\ Len(llm.log) = 2
    /\ result # NoDict
    /\ result.processing_notes # <<>>


\* C26: the attempts of one remote call are strictly sequential. At most one
\* attempt is in flight; an attempt is in flight only at the await of the
\* post; and whenever attempt n + 1 is in flight, the n attempts before it
\* have all ended in a failure the policy retries and n waits have elapsed,
\* one after each of them.
C26_RetriesSequential ==
    /\ llm.inflight \in {0, 1}
    /\ llm.inflight = 1 <=> pc = "llm_wait"
    /\ llm.inflight = 1 =>
          /\ llm.waits = Len(llm.log)
          /\ \A i \in 1..Len(llm.log) : ShouldRetry(llm.log[i])
    /\ pc = "llm_backoff" =>
          /\ Len(llm.log) > 0
          /\ ShouldRetry(llm.log[Len(llm.log)])
          /\ llm.waits = Len(llm.log) - 1
    /\ llm.waits <= Len(llm.log)

C26_Witness ==
    /\ llm.inflight = 1
    /\ Len(llm.log) = 2
    /\ llm.waits = 2


\* _process_image has returned its result after escalating to the vision
\* model.
EscalatedAndAssembled ==
    /\ llm.kind = "image"
    /\ exc = ""
    /\ pc \in {"return", "returned", "background", "done"}
    /\ result # NoDict

\* C27: after an escalation the raw_text of the result is the vision model's
\* raw_text when that is non-empty and the OCR text otherwise, so it is
\* neither absent nor empty when the OCR produced text.
C27_RawTextAfterEscalation ==
    EscalatedAndAssembled =>
        /\ result.raw_text =
              IF analysis.raw_text # AbsentText /\ Truthy(analysis.raw_text)
              THEN analysis.raw_text ELSE text
        /\ Truthy(ocr.text) =>
              result.raw_text # AbsentText /\ Truthy(result.raw_text)


\* C28: _process_pdf asks the LLM for a text analysis exactly when the
\* result of the extractor has no extracted_data or an empty one. Then every
\* field of the analysis replaces the field of the same name (a
\* document_type "error" of the extractor included) and raw_text is the
\* extractor's raw_text; otherwise the LLM is not called and the result of
\* the extractor is returned as it is.
C28_PdfAnalysisIffNoExtractedData ==
    unit.fn = "_process_pdf" =>
        LET res == unit.input.result
            a == unit.input.analysis
            out == unit.output
        IN /\ out.llm_called <=> res.extracted_data \in {"<absent>", "empty"}
           /\ ~out.llm_called => out.d = res
           /\ out.llm_called =>
                 /\ a.document_type # "<absent>" => out.d.document_type = a.document_type
                 /\ a.confidence_score # {} =>
                       out.d.confidence_score = a.confidence_score
                 /\ a.extracted_data # "<absent>" =>
                       out.d.extracted_data = a.extracted_data
                 /\ a.error # "" => out.d.error = a.error
                 /\ out.d.raw_text = get_raw_text(res)

C28_Witness ==
    /\ unit.fn = "_process_pdf"
    /\ unit.output.llm_called
    /\ unit.input.result.document_type = "error"
    /\ unit.input.analysis.document_type = "fattura"
    /\ unit.output.d.document_type = "fattura"
    /\ unit.input.result.raw_text # AbsentText
    /\ unit.output.d.raw_text = unit.input.result.raw_text


\* C29: the file object opened on the temp file for the tabular decoder is
\* closed on every path before the temp file is removed, and so before the
\* processor comes back: once the request's temp file is gone the handle is
\* not open, whether the decoder returned or raised.
C29_HandleClosedBeforeRemoval ==
    (calls.processor > 0 /\ "upload" \notin files) => handle # "open"


----------------------------------------------------------------------------
\* Requests served at the same time and the temp directory they share.

\* Names of the uploads and values of hashlib.md5(os.urandom(32)).hexdigest()[:8],
\* the eight hexadecimal digits save_upload_file puts after the name.
UploadStems == {"doc", "scan"}
Suffixes == {"0a1b2c3d", "9f8e7d6c"}

\* save_upload_file: the path is <stem>_<suffix>.<ext> in TEMP_FOLDER and the
\* file is opened with mode "wb", which creates it or truncates the file
\* that is already there.
save_upload_file(fs, stem, suffix) ==
    [path |-> <<stem, suffix>>, files |-> fs \cup {<<stem, suffix>>}]

\* cleanup_temp_directory: every file of TEMP_FOLDER is removed.
cleanup_temp_directory(fs) == {}

\* An endpoint validates the upload and saves it; the processor starts.
Upload(i) ==
    /\ tasks[i].pc = "idle"
    /\ \E flow \in {"process-document", "process-for-claude"},
          stem \in UploadStems, suffix \in Suffixes :
          LET saved == save_upload_file(files, stem, suffix) IN
          /\ files' = saved.files
          /\ tasks' = [tasks EXCEPT ![i] = [pc |-> "processing", flow |-> flow,
                                            path |-> saved.path]]
    /\ UNCHANGED <<pc, cfg, served, req, cleanupCalls, bgTasks, ocr, mv, text, llm,
                   analysis, result, ret, response, calls, exc, unit, handle>>

\* The finally clause of process_document / process_for_claude.
ProcessorFinally(i) ==
    /\ tasks[i].pc = "processing"
    /\ files' = cleanup_temp_file(files, tasks[i].path)
    /\ tasks' = [tasks EXCEPT ![i] =
                    IF tasks[i].flow = "process-for-claude"
                    THEN [@ EXCEPT !.pc = "background"] ELSE NoTask]
    /\ UNCHANGED <<pc, cfg, served, req, cleanupCalls, bgTasks, ocr, mv, text, llm,
                   analysis, result, ret, response, calls, exc, unit, handle>>

\* The cleanup_temp_file task /process-for-claude queued runs after the
\* response.
BackgroundCleanup(i) ==
    /\ tasks[i].pc = "background"
    /\ files' = cleanup_temp_file(files, tasks[i].path)
    /\ tasks' = [tasks EXCEPT ![i] = NoTask]
    /\ UNCHANGED <<pc, cfg, served, req, cleanupCalls, bgTasks, ocr, mv, text, llm,
                   analysis, result, ret, response, calls, exc, unit, handle>>

\* shutdown_event: the server runs it once the requests it was serving have
\* ended.
ShutdownEvent ==
    /\ \A i \in DOMAIN tasks : tasks[i].pc = "idle"
    /\ files' = cleanup_temp_directory(files)
    /\ UNCHANGED <<pc, cfg, served, req, cleanupCalls, bgTasks, ocr, mv, text, llm,
                   analysis, result, ret, response, calls, exc, unit, handle, tasks>>

NextConcurrent ==
    \/ \E i \in DOMAIN tasks : Upload(i)
    \/ \E i \in DOMAIN tasks : ProcessorFinally(i)
    \/ \E i \in DOMAIN tasks : BackgroundCleanup(i)
    \/ ShutdownEvent

SpecConcurrent == Init /\ [][NextConcurrent]_vars

\* C30: requests served at the same time do not meet in the temp directory:
\* no two of them hold the same temp path, and the temp file of a request
\* that is still being processed is on disk, so no cleanup of another
\* request and no shutdown cleanup has removed it.
C30_TempStorageIsolated ==
    /\ \A i, j \in DOMAIN tasks :
          (i # j /\ tasks[i].pc # "idle" /\ tasks[j].pc # "idle") =>
              tasks[i].path # tasks[j].path
    /\ \A i \in DOMAIN tasks :
          tasks[i].pc = "processing" => tasks[i].path \in files

====
